---- MODULE Spec2Model ----
(***************************************************************************)
(* Model of the publication batch pipeline:                                *)
(*   create_dataset.py   - main(): resolve, fetch, count, write, log       *)
(*   csv_to_jsonschema.py - csv_to_json_schema(): the schema compiler      *)
(*   create_batch.py     - the batch submitter script                      *)
(* Each program is a sequential script; its position is a pc variable and  *)
(* every remote answer is an input chosen by the environment.              *)
(***************************************************************************)
EXTENDS Integers, Sequences, FiniteSets, TLC

VARIABLES
    df,            \* create_dataset: the metadata table read by pd.read_csv
    pc,            \* create_dataset: position in main()
    pos,           \* create_dataset: position of the loop in open_access_df
    pmid,          \* create_dataset: local pmid
    pmcid,         \* create_dataset: local pmcid
    response,      \* create_dataset: the content service's answer in fetch_article_text
    article_text,  \* create_dataset: local article_text
    token_count,   \* create_dataset: local token_count
    included,      \* create_dataset: local included
    outfile,       \* datasets/publication_dataset.jsonl, a sequence of lines
    logfile,       \* pmcid_token_log.csv, a sequence of lines
    xml_files,     \* xml_content/<PMCID>.xml, PMCID -> payload or NoFile
    requests,      \* history: the outbound requests made so far
    csv,           \* csv_to_jsonschema: the CSV specification (df of csv_to_json_schema)
    spc,           \* csv_to_jsonschema: position in csv_to_json_schema
    srow,          \* csv_to_jsonschema: position of the loop in filtered_df
    schema,        \* csv_to_jsonschema: the schema being built
    bpc,           \* create_batch: position in the script
    batch_input_file, \* create_batch: the uploaded file object
    created_batch, \* create_batch: the job descriptor returned by batches.create
    batch,         \* create_batch: the job descriptor returned by batches.retrieve
    calls,         \* create_batch history: the remote calls made so far
    disk           \* create_batch: the descriptor files, job id -> content or NoFile

dvars == <<df, pc, pos, pmid, pmcid, response, article_text, token_count,
           included, outfile, logfile, xml_files, requests>>
svars == <<csv, spc, srow, schema>>
bvars == <<bpc, batch_input_file, created_batch, batch, calls, disk>>
vars == <<dvars, svars, bvars>>

\* Bounds of the model.
MaxRows == 2
MaxCsvRows == 5

\* Python's None; a file that does not exist and a file holding content c.
None == "NoneType"
NoFile == [exists |-> FALSE, content |-> [well_formed |-> FALSE, passages |-> <<>>]]
File(c) == [exists |-> TRUE, content |-> c]

\* Python truthiness of a str-or-None value (if pmcid:, if article_text:, if p.text).
Truthy(v) == v # None /\ v # ""

RECURSIVE SeqsUpTo(_, _)
SeqsUpTo(S, n) ==
    IF n = 0 THEN {<<>>}
    ELSE LET shorter == SeqsUpTo(S, n - 1)
         IN shorter \cup {Append(s, x) : s \in {t \in shorter : Len(t) = n - 1}, x \in S}

IsPrefix(s, t) == Len(s) <= Len(t) /\ SubSeq(t, 1, Len(s)) = s

(***************************************************************************)
(* create_dataset.py                                                       *)
(***************************************************************************)

Threshold == 200000

PubmedIds == {12345, 99999}
Accessibilities == {"Open Access", "Restricted"}
MetadataRows == [pubmed_id : PubmedIds, accessibility : Accessibilities]

PMCIDs == {"PMC000001", "PMC000002"}

\* Answers of the lookup service to requests.get (line 14).
LookupException == [kind |-> "exception", status_code |-> 0, is_json |-> FALSE,
                    data |-> [records |-> <<>>]]
LookupBodies ==
    {[is_json |-> FALSE, data |-> [records |-> <<>>]],
     [is_json |-> TRUE, data |-> [error |-> "invalid"]],
     [is_json |-> TRUE, data |-> [records |-> <<>>]],
     [is_json |-> TRUE, data |-> [records |-> <<[pmid |-> "x", status |-> "error"]>>]]}
    \cup {[is_json |-> TRUE, data |-> [records |-> <<[pmid |-> "x", pmcid |-> p]>>]]
            : p \in PMCIDs \cup {""}}
LookupResponses ==
    {LookupException}
    \cup {[kind |-> "response", status_code |-> s, is_json |-> b.is_json, data |-> b.data]
            : s \in {200, 404}, b \in LookupBodies}

\* Payloads of the content service: well-formed XML or not, and the text of
\* each passage/text element in document order (None for an empty element).
Payloads ==
    {[well_formed |-> FALSE, passages |-> <<>>],
     [well_formed |-> TRUE, passages |-> <<>>],
     [well_formed |-> TRUE, passages |-> <<None>>],
     [well_formed |-> TRUE, passages |-> <<"Intro", None, "Methods">>]}
ContentException == [kind |-> "exception", status_code |-> 0,
                     content |-> [well_formed |-> FALSE, passages |-> <<>>]]
ContentResponses ==
    {ContentException}
    \cup {[kind |-> "response", status_code |-> s, content |-> p]
            : s \in {200, 404}, p \in Payloads}
NoResponse == [kind |-> "none", status_code |-> 0,
               content |-> [well_formed |-> FALSE, passages |-> <<>>]]

\* Results of the tokenizer (tiktoken) on a non-empty text.
TokenCounts == {500, Threshold - 1, Threshold, Threshold + 1}

\* Variant of StatusOk: any status the service answers with is taken as success.
StatusNotZero(r) == r.status_code # 0
\* response.status_code == 200 (lines 15, 27)
StatusOk(r) == r.status_code = 200

\* fetch_pmcid_from_pmid, lines 15-20: the value returned when no exception is raised.
PmcidOf(r) ==
    IF StatusOk(r)
    THEN LET records == IF "records" \in DOMAIN r.data THEN r.data.records ELSE <<>>
         IN IF records # <<>> /\ "pmcid" \in DOMAIN records[1]
            THEN records[1].pmcid
            ELSE None
    ELSE None

\* fetch_pmcid_from_pmid raises: requests.get failed, or response.json() on a
\* body that is not JSON (line 16).
LookupRaises(r) == r.kind = "exception" \/ (StatusOk(r) /\ ~r.is_json)

\* " ".join(...) (line 42)
RECURSIVE JoinSpace(_)
JoinSpace(texts) ==
    IF texts = <<>> THEN ""
    ELSE IF Len(texts) = 1 THEN texts[1]
    ELSE texts[1] \o " " \o JoinSpace(Tail(texts))

\* lines 39-46: ET.fromstring, findall, join; ParseError gives None.
ParseText(content) ==
    IF content.well_formed
    THEN JoinSpace(SelectSeq(content.passages, Truthy))
    ELSE None

\* str(row["Pubmed Id"]) (line 78)
Str(n) == ToString(n)

\* df[df["Publication Accessibility"] == "Open Access"] (line 64): the index
\* labels of the kept rows, in table order.
IsOpenAccess(row) == row.accessibility = "Open Access"
\* Variant of open_access_df: the table without the accessibility filter.
unfiltered_df == [k \in 1..Len(df) |-> k]
open_access_df ==
    SelectSeq([k \in 1..Len(df) |-> k], LAMBDA k : IsOpenAccess(df[k]))

\* The lines of the two output files. "row" is the index label of the
\* metadata row the line was written for (0 for lines not written for a row).
LogHeader == [row |-> 0, line |-> <<"PMID", "PMCID", "TokenCount", "Included">>]
AuditRow(k, a, b, c, d) == [row |-> k, line |-> <<a, b, c, d>>]
StaleLog == <<[row |-> 0, line |-> <<"PMID", "PMCID", "TokenCount", "Included">>],
              [row |-> 0, line |-> <<"1", "PMC000009", "7", "Yes">>]>>
entry(k, id, pmc, text) ==
    [row |-> k,
     line |-> [custom_id |-> "pub-" \o id, method |-> "POST",
               url |-> "/v1/chat/completions", model |-> "gpt-4o-mini",
               user_content |-> <<id, pmc, text>>]]
StaleDataset == <<entry(0, "1", "PMC000009", "old")>>

\* Variant of WriteLine: the line replaces the content of the file.
WriteLineOver(f, l) == <<l>>
\* file.write on a file opened for writing or appending
WriteLine(f, l) == Append(f, l)

cur == open_access_df[pos]

DInit ==
    /\ df \in SeqsUpTo(MetadataRows, MaxRows)
    /\ pc = "init_log"
    /\ pos = 0
    /\ pmid = None
    /\ pmcid = None
    /\ response = NoResponse
    /\ article_text = None
    /\ token_count = 0
    /\ included = None
    /\ \E stale \in BOOLEAN :
         /\ outfile = IF stale THEN StaleDataset ELSE <<>>
         /\ logfile = IF stale THEN StaleLog ELSE <<>>
    /\ xml_files = [p \in PMCIDs |-> NoFile]
    /\ requests = <<>>

\* lines 73-74: open(log_file, "w") and the header
InitLog ==
    /\ pc = "init_log"
    /\ UNCHANGED <<svars, bvars>>
    /\ logfile' = WriteLine(<<>>, LogHeader)
    /\ pc' = "open"
    /\ UNCHANGED <<df, pos, pmid, pmcid, response, article_text, token_count,
                   included, outfile, xml_files, requests>>

\* line 76: open(jsonl_output, "w"), open(log, "a"); the loop starts
OpenFiles ==
    /\ pc = "open"
    /\ UNCHANGED <<svars, bvars>>
    /\ outfile' = <<>>
    /\ pos' = 1
    /\ pc' = "loop"
    /\ UNCHANGED <<df, pmid, pmcid, response, article_text, token_count,
                   included, logfile, xml_files, requests>>

\* lines 77-78: next row of open_access_df, or the end of the run
NextRow ==
    /\ pc = "loop"
    /\ UNCHANGED <<svars, bvars>>
    /\ IF pos <= Len(open_access_df)
       THEN /\ pmid' = Str(df[cur].pubmed_id)
            /\ pc' = "resolve"
       ELSE /\ pc' = "done"
            /\ UNCHANGED pmid
    /\ UNCHANGED <<df, pos, pmcid, response, article_text, token_count,
                   included, outfile, logfile, xml_files, requests>>

\* line 82 and fetch_pmcid_from_pmid, lines 11-20
Resolve ==
    /\ pc = "resolve"
    /\ UNCHANGED <<svars, bvars>>
    /\ \E r \in LookupResponses :
         /\ requests' = Append(requests, [row |-> cur, kind |-> "lookup", id |-> pmid])
         /\ IF LookupRaises(r)
            THEN pc' = "raised" /\ UNCHANGED pmcid
            ELSE pc' = "if_pmcid" /\ pmcid' = PmcidOf(r)
    /\ UNCHANGED <<df, pos, pmid, response, article_text, token_count,
                   included, outfile, logfile, xml_files>>

\* Variant of IfPmcid: the fetch is attempted whatever the lookup returned.
IfPmcidAlwaysFetch ==
    /\ pc = "if_pmcid"
    /\ pc' = "fetch"
    /\ UNCHANGED <<df, pos, pmid, pmcid, response, article_text, token_count,
                   included, outfile, logfile, xml_files, requests, svars, bvars>>

\* lines 84, 180-182: if pmcid ... else log Error-NoPMCID
IfPmcid ==
    /\ pc = "if_pmcid"
    /\ UNCHANGED <<svars, bvars>>
    /\ IF Truthy(pmcid)
       THEN pc' = "fetch" /\ UNCHANGED logfile
       ELSE /\ logfile' = WriteLine(logfile, AuditRow(cur, pmid, "None", "0", "Error-NoPMCID"))
            /\ pc' = "sleep"
    /\ UNCHANGED <<df, pos, pmid, pmcid, response, article_text, token_count,
                   included, outfile, xml_files, requests>>

\* line 88 and fetch_article_text, lines 24-27 and 47: the request
FetchRequest ==
    /\ pc = "fetch"
    /\ UNCHANGED <<svars, bvars>>
    /\ \E r \in ContentResponses :
         /\ requests' = Append(requests, [row |-> cur, kind |-> "content", id |-> pmcid])
         /\ response' = r
         /\ IF r.kind = "exception"
            THEN pc' = "raised" /\ UNCHANGED article_text
            ELSE IF StatusOk(r)
                 THEN pc' = "fetch_save" /\ UNCHANGED article_text
                 ELSE pc' = "if_text" /\ article_text' = None
    /\ UNCHANGED <<df, pos, pmid, pmcid, token_count, included, outfile,
                   logfile, xml_files>>

\* fetch_article_text, lines 30-35: the payload is saved
FetchSave ==
    /\ pc = "fetch_save"
    /\ UNCHANGED <<svars, bvars>>
    /\ xml_files' = [xml_files EXCEPT ![pmcid] = File(response.content)]
    /\ pc' = "fetch_parse"
    /\ UNCHANGED <<df, pos, pmid, pmcid, response, article_text, token_count,
                   included, outfile, logfile, requests>>

\* fetch_article_text, lines 37-46: parse and join
FetchParse ==
    /\ pc = "fetch_parse"
    /\ UNCHANGED <<svars, bvars>>
    /\ article_text' = ParseText(response.content)
    /\ pc' = "if_text"
    /\ UNCHANGED <<df, pos, pmid, pmcid, response, token_count, included,
                   outfile, logfile, xml_files, requests>>

\* lines 90, 177-179: if article_text ... else log Error-NoText-or-XMLParseError
IfText ==
    /\ pc = "if_text"
    /\ UNCHANGED <<svars, bvars>>
    /\ IF Truthy(article_text)
       THEN pc' = "count" /\ UNCHANGED logfile
       ELSE /\ logfile' = WriteLine(logfile,
                   AuditRow(cur, pmid, pmcid, "0", "Error-NoText-or-XMLParseError"))
            /\ pc' = "sleep"
    /\ UNCHANGED <<df, pos, pmid, pmcid, response, article_text, token_count,
                   included, outfile, xml_files, requests>>

\* line 92 and count_tokens, lines 49-52
CountTokens ==
    /\ pc = "count"
    /\ UNCHANGED <<svars, bvars>>
    /\ \E n \in TokenCounts : token_count' = n
    /\ pc' = "gate"
    /\ UNCHANGED <<df, pos, pmid, pmcid, response, article_text, included,
                   outfile, logfile, xml_files, requests>>

\* Variant of UnderThreshold: the boundary value passes the gate.
UpToThreshold(n) == n <= Threshold
\* token_count < 200000 (line 96)
UnderThreshold(n) == n < Threshold

\* Variant of Gate: a row under the threshold is marked Yes and no entry is written.
GateYesWithoutLine ==
    /\ pc = "gate"
    /\ included' = IF UnderThreshold(token_count) THEN "Yes" ELSE "No"
    /\ pc' = "log"
    /\ UNCHANGED <<df, pos, pmid, pmcid, response, article_text, token_count,
                   outfile, logfile, xml_files, requests, svars, bvars>>

\* lines 95-173: the size gate, the entry and the dataset line
Gate ==
    /\ pc = "gate"
    /\ UNCHANGED <<svars, bvars>>
    /\ IF UnderThreshold(token_count)
       THEN /\ outfile' = WriteLine(outfile, entry(cur, pmid, pmcid, article_text))
            /\ included' = "Yes"
       ELSE /\ included' = "No"
            /\ UNCHANGED outfile
    /\ pc' = "log"
    /\ UNCHANGED <<df, pos, pmid, pmcid, response, article_text, token_count,
                   logfile, xml_files, requests>>

\* line 176: the audit row of a counted row
LogRow ==
    /\ pc = "log"
    /\ UNCHANGED <<svars, bvars>>
    /\ logfile' = WriteLine(logfile, AuditRow(cur, pmid, pmcid, Str(token_count), included))
    /\ pc' = "sleep"
    /\ UNCHANGED <<df, pos, pmid, pmcid, response, article_text, token_count,
                   included, outfile, xml_files, requests>>

\* line 185: time.sleep(1), then the next iteration
Sleep ==
    /\ pc = "sleep"
    /\ UNCHANGED <<svars, bvars>>
    /\ pos' = pos + 1
    /\ pc' = "loop"
    /\ UNCHANGED <<df, pmid, pmcid, response, article_text, token_count,
                   included, outfile, logfile, xml_files, requests>>

DNext ==
    \/ InitLog \/ OpenFiles \/ NextRow \/ Resolve \/ IfPmcid \/ FetchRequest
    \/ FetchSave \/ FetchParse \/ IfText \/ CountTokens \/ Gate \/ LogRow \/ Sleep

(***************************************************************************)
(* csv_to_jsonschema.py                                                    *)
(***************************************************************************)

\* A cell pandas reads as missing.
NaN == <<"NaN">>

\* Attribute names and Valid Values cells are sequences of characters; a
\* maximal run of characters other than " " and "," is written as one element.
PubmedIdAttr == <<"Pubmed", " ", "Id">>
AssayAttr == <<"Publication", " ", "Assay">>
TumorTypeAttr == <<"Publication", " ", "Tumor", " ", "Type">>
TissueAttr == <<"Publication", " ", "Tissue">>
DatasetAliasAttr == <<"Publication", " ", "Dataset", " ", "Alias">>
TitleAttr == <<"Publication", " ", "Title">>

\* The rows a CSV specification is made of.
CsvRows ==
    {[Attribute |-> PubmedIdAttr, ValidationRules |-> "str", Description |-> "id",
      ValidValues |-> NaN, Required |-> <<"True">>],
     [Attribute |-> AssayAttr, ValidationRules |-> "list like", Description |-> "assay",
      ValidValues |-> <<"RNA-seq", ",", " ", "ELISA", " ">>, Required |-> <<"True">>],
     [Attribute |-> AssayAttr, ValidationRules |-> "str", Description |-> "assay",
      ValidValues |-> <<"MRI">>, Required |-> <<"False">>],
     [Attribute |-> TumorTypeAttr, ValidationRules |-> "list like", Description |-> "tumor",
      ValidValues |-> NaN, Required |-> NaN],
     [Attribute |-> TissueAttr, ValidationRules |-> "list like", Description |-> "tissue",
      ValidValues |-> <<"blood", ",", "nerve", " ", "tissue">>, Required |-> <<"False">>],
     [Attribute |-> DatasetAliasAttr, ValidationRules |-> "str", Description |-> "alias",
      ValidValues |-> NaN, Required |-> <<"True">>],
     [Attribute |-> TitleAttr, ValidationRules |-> "str", Description |-> "title",
      ValidValues |-> NaN, Required |-> <<"True">>]}

\* Variant of target_fields: the four Publication attributes only.
target_fields_without_id == <<AssayAttr, TumorTypeAttr, TissueAttr, DatasetAliasAttr>>
\* lines 20-26
target_fields ==
    <<PubmedIdAttr, AssayAttr, TumorTypeAttr, TissueAttr, DatasetAliasAttr>>

\* df['Attribute'].isin(target_fields) (line 28)
IsIn(a, fields) == \E j \in 1..Len(fields) : fields[j] = a
\* line 28
filtered_df == SelectSeq(csv, LAMBDA r : IsIn(r.Attribute, target_fields))

\* row['Attribute'].replace(" ", "") (line 43)
property_key(attribute) == SelectSeq(attribute, LAMBDA c : c # " ")

\* pd.notna(...) (lines 60, 72, 81)
notna(v) == v # NaN

\* str.split(',') (lines 62, 74)
RECURSIVE Split(_, _)
Split(cell, piece) ==
    IF cell = <<>> THEN <<piece>>
    ELSE IF Head(cell) = "," THEN <<piece>> \o Split(Tail(cell), <<>>)
    ELSE Split(Tail(cell), Append(piece, Head(cell)))

\* str.strip() (lines 62, 74)
RECURSIVE LStrip(_)
LStrip(v) == IF v # <<>> /\ Head(v) = " " THEN LStrip(Tail(v)) ELSE v
RECURSIVE RStrip(_)
RStrip(v) ==
    IF v # <<>> /\ v[Len(v)] = " " THEN RStrip(SubSeq(v, 1, Len(v) - 1)) ELSE v
Strip(v) == RStrip(LStrip(v))

\* lines 62, 74
valid_values(cell) ==
    LET pieces == Split(cell, <<>>) IN [j \in 1..Len(pieces) |-> Strip(pieces[j])]

\* lines 46-75: the property definition of one row
property_def(row) ==
    IF row.ValidationRules = "list like"
    THEN IF notna(row.ValidValues)
         THEN [type |-> "array", title |-> row.Attribute, description |-> row.Description,
               items |-> [type |-> "string", enum |-> valid_values(row.ValidValues)]]
         ELSE [type |-> "array", title |-> row.Attribute, description |-> row.Description,
               items |-> [type |-> "string"]]
    ELSE IF notna(row.ValidValues)
         THEN [type |-> "string", title |-> row.Attribute, description |-> row.Description,
               enum |-> valid_values(row.ValidValues)]
         ELSE [type |-> "string", title |-> row.Attribute, description |-> row.Description]

\* lines 31-38: the schema before any property is added; properties is a
\* mapping from property key to property definition.
EmptySchema == [properties |-> <<>>, required |-> <<>>]

SInit ==
    /\ csv \in SeqsUpTo(CsvRows, MaxCsvRows)
    /\ spc = "start"
    /\ srow = 0
    /\ schema = EmptySchema

\* lines 17-38: read, filter, the empty schema
SchemaStart ==
    /\ spc = "start"
    /\ schema' = EmptySchema
    /\ srow' = 1
    /\ spc' = "rows"
    /\ UNCHANGED <<csv, dvars, bvars>>

\* lines 41-84: one row of filtered_df, or the return
SchemaRow ==
    /\ spc = "rows"
    /\ IF srow <= Len(filtered_df)
       THEN LET row == filtered_df[srow]
                key == property_key(row.Attribute)
            IN /\ schema' =
                    [properties |-> (key :> property_def(row)) @@ schema.properties,
                     required |-> IF notna(row.Required) /\ row.Required = <<"True">>
                                  THEN Append(schema.required, key)
                                  ELSE schema.required]
               /\ srow' = srow + 1
               /\ UNCHANGED spc
       ELSE /\ spc' = "returned"
            /\ UNCHANGED <<schema, srow>>
    /\ UNCHANGED <<csv, dvars, bvars>>

SNext == SchemaStart \/ SchemaRow


(***************************************************************************)
(* create_batch.py                                                         *)
(***************************************************************************)

FileIds == {"file-1", "file-2", "file-3"}
JobIds == {"batch_1", "batch_2", "batch_3"}
CreatedStatuses == {"validating", "failed"}
RetrievedStatuses == {"validating", "in_progress", "failed"}

\* No object yet, and the objects the remote service returns.
NoFileObject == [id |-> ""]
NoJob == [id |-> "", input_file_id |-> "", endpoint |-> "", completion_window |-> "",
          status |-> ""]
Job(id, file_id, status) ==
    [id |-> id, input_file_id |-> file_id, endpoint |-> "/v1/chat/completions",
     completion_window |-> "24h", status |-> status]

\* <job id>.json: absent, or holding a descriptor.
NoDescriptor == [exists |-> FALSE, content |-> NoJob]
Descriptor(d) == [exists |-> TRUE, content |-> d]

BInit ==
    /\ bpc = "upload"
    /\ batch_input_file = NoFileObject
    /\ created_batch = NoJob
    /\ batch = NoJob
    /\ calls = <<>>
    /\ disk = [j \in JobIds |-> NoDescriptor]

\* lines 6-9: client.files.create
Upload ==
    /\ bpc = "upload"
    /\ calls' = Append(calls, [call |-> "files.create", arg |-> "publication_dataset.jsonl"])
    /\ \/ /\ bpc' = "raised"
          /\ UNCHANGED batch_input_file
       \/ \E f \in FileIds :
            /\ batch_input_file' = [id |-> f]
            /\ bpc' = "create"
    /\ UNCHANGED <<created_batch, batch, disk, dvars, svars>>

\* lines 13-21: client.batches.create
CreateBatch ==
    /\ bpc = "create"
    /\ calls' = Append(calls, [call |-> "batches.create", arg |-> batch_input_file.id])
    /\ \/ /\ bpc' = "raised"
          /\ UNCHANGED created_batch
       \/ \E j \in JobIds, st \in CreatedStatuses :
            /\ created_batch' = Job(j, batch_input_file.id, st)
            /\ bpc' = "retrieve"
    /\ UNCHANGED <<batch_input_file, batch, disk, dvars, svars>>

\* line 23: client.batches.retrieve
Retrieve ==
    /\ bpc = "retrieve"
    /\ calls' = Append(calls, [call |-> "batches.retrieve", arg |-> created_batch.id])
    /\ \/ /\ bpc' = "raised"
          /\ UNCHANGED batch
       \/ \E st \in RetrievedStatuses :
            /\ batch' = Job(created_batch.id, created_batch.input_file_id, st)
            /\ bpc' = "persist"
    /\ UNCHANGED <<batch_input_file, created_batch, disk, dvars, svars>>

\* lines 24-25: the descriptor file
Persist ==
    /\ bpc = "persist"
    /\ disk' = [disk EXCEPT ![batch.id] = Descriptor(created_batch)]
    /\ bpc' = "done"
    /\ UNCHANGED <<batch_input_file, created_batch, batch, calls, dvars, svars>>

BNext == Upload \/ CreateBatch \/ Retrieve \/ Persist

\* The dataset builder at rest.
DIdle ==
    /\ df = <<>>
    /\ pc = "idle"
    /\ pos = 0
    /\ pmid = None
    /\ pmcid = None
    /\ response = NoResponse
    /\ article_text = None
    /\ token_count = 0
    /\ included = None
    /\ outfile = <<>>
    /\ logfile = <<>>
    /\ xml_files = [p \in PMCIDs |-> NoFile]
    /\ requests = <<>>

\* The other two programs at rest.
SIdle ==
    /\ csv = <<>>
    /\ spc = "idle"
    /\ srow = 0
    /\ schema = EmptySchema
BIdle ==
    /\ bpc = "idle"
    /\ batch_input_file = NoFileObject
    /\ created_batch = NoJob
    /\ batch = NoJob
    /\ calls = <<>>
    /\ disk = [j \in JobIds |-> NoDescriptor]

Init == DInit /\ SIdle /\ BIdle
Next == DNext
Spec == Init /\ [][Next]_vars

SchemaInit == SInit /\ DIdle /\ BIdle
SchemaNext == SNext
SchemaSpec == SchemaInit /\ [][SchemaNext]_vars

BatchInit == BInit /\ DIdle /\ SIdle
BatchNext == BNext
BatchSpec == BatchInit /\ [][BatchNext]_vars

(***************************************************************************)
(* Properties of create_dataset.py                                         *)
(***************************************************************************)

Statuses == {"Yes", "No", "Error-NoPMCID", "Error-NoText-or-XMLParseError"}
ErrorStatuses == {"No", "Error-NoPMCID", "Error-NoText-or-XMLParseError"}

\* The rows main() processes, and the lines written for row k in this run.
Processed == {k \in 1..Len(df) : df[k].accessibility = "Open Access"}
NotProcessed == {k \in 1..Len(df) : df[k].accessibility # "Open Access"}
AuditRowsOf(k) == {j \in 1..Len(logfile) : logfile[j].row = k}
TaskRecordsOf(k) == {j \in 1..Len(outfile) : outfile[j].row = k}
RequestsOf(k) == {j \in 1..Len(requests) : requests[j].row = k}
StatusAt(j) == logfile[j].line[4]
HasStatus(k, st) == \E j \in AuditRowsOf(k) : StatusAt(j) = st
Truncated == pc \notin {"init_log", "open"}
RunEnded == pc \in {"done", "raised"}

\* C1: when a run of main() has ended, every processed row (accessibility
\* "Open Access") has exactly one Audit Row in the log, with one of the four
\* statuses.
C1_OneAuditRowPerProcessedRow ==
    RunEnded =>
        \A k \in Processed :
            /\ Cardinality(AuditRowsOf(k)) = 1
            /\ \A j \in AuditRowsOf(k) : StatusAt(j) \in Statuses

\* C2 as stated: at every point of a run, a Task Record with custom_id
\* "pub-<PMID>" is in the dataset file for a processed row if and only if the
\* Audit Row of that row has status Yes.
C2_TaskRecordIffYesAtEveryPoint ==
    Truncated =>
        \A k \in Processed : (TaskRecordsOf(k) # {}) <=> HasStatus(k, "Yes")

\* The row whose Task Record is written and whose Audit Row is not yet
\* (between lines 169 and 176).
BetweenWrites(k) == pc = "log" /\ cur = k

\* C2 as amended: at every point of a run except between the dataset write
\* and the log write of the row being processed, a processed row has a Task
\* Record with custom_id "pub-<PMID>" if and only if its Audit Row has status
\* Yes; between the two writes the Task Record of that row is there and its
\* Audit Row is not yet. A row with status No or an error status never has a
\* dataset line, and a row has at most one Task Record.
C2_TaskRecordIffYes ==
    Truncated =>
        \A k \in Processed :
            /\ Cardinality(TaskRecordsOf(k)) <= 1
            /\ \A j \in TaskRecordsOf(k) :
                   outfile[j].line.custom_id = "pub-" \o ToString(df[k].pubmed_id)
            /\ HasStatus(k, "Yes") => TaskRecordsOf(k) # {}
            /\ (TaskRecordsOf(k) # {} /\ ~BetweenWrites(k)) => HasStatus(k, "Yes")
            /\ (\E st \in ErrorStatuses : HasStatus(k, st)) => TaskRecordsOf(k) = {}

C2_Witness ==
    /\ pc = "done"
    /\ \E k \in Processed : HasStatus(k, "Yes") /\ TaskRecordsOf(k) # {}
    /\ \E k \in Processed : HasStatus(k, "No") /\ TaskRecordsOf(k) = {}

\* C3: no exception propagates out of the processing of a row; when the run
\* is over every processed row has been given an Audit Row.
C3_NoExceptionPropagates ==
    /\ pc # "raised"
    /\ pc = "done" => \A k \in Processed : AuditRowsOf(k) # {}

\* C4: a row whose accessibility is not "Open Access" has no line in the
\* dataset file, no line in the audit log, and causes no request.
C4_OnlyOpenAccess ==
    \A k \in NotProcessed :
        /\ AuditRowsOf(k) = {}
        /\ TaskRecordsOf(k) = {}
        /\ RequestsOf(k) = {}

C4_Witness ==
    /\ pc = "done"
    /\ NotProcessed # {}
    /\ \E k \in Processed : k > 1 /\ (k - 1) \in NotProcessed /\ HasStatus(k, "Yes")

\* C5: for a row whose identifier resolved and whose text is non-empty, the
\* gate decides on the token count alone: a count >= 200000 gives status No
\* and no Task Record, a count < 200000 gives status Yes and one Task Record,
\* and the Audit Row carries the count.
Counted == pc = "sleep" /\ Truthy(pmcid) /\ Truthy(article_text)
C5_SizeGate ==
    Counted =>
        /\ Cardinality(AuditRowsOf(cur)) = 1
        /\ logfile[Len(logfile)] =
               [row |-> cur,
                line |-> <<pmid, pmcid, ToString(token_count),
                           IF token_count >= 200000 THEN "No" ELSE "Yes">>]
        /\ Cardinality(TaskRecordsOf(cur)) = IF token_count >= 200000 THEN 0 ELSE 1

C5_Witness ==
    /\ Counted
    /\ token_count = 200000
    /\ HasStatus(cur, "No")
    /\ TaskRecordsOf(cur) = {}

\* C6: both files are truncated at the start of the run and from then on only
\* grow by appended lines; the log starts with the header; the Audit Rows and
\* the Task Records appear in the iteration order of the input table.
RowsOf(f) == [j \in 1..Len(f) |-> f[j].row]
Increasing(s) == \A a, b \in 1..Len(s) : a < b => s[a] < s[b]
C6_AppendOnly ==
    /\ [][/\ pc = "init_log" => logfile' = <<LogHeader>>
          /\ pc = "open" => outfile' = <<>>
          /\ pc # "init_log" => IsPrefix(logfile, logfile')
          /\ pc \notin {"init_log", "open"} => IsPrefix(outfile, outfile')]_vars
    /\ [](Truncated =>
            /\ logfile[1] = LogHeader
            /\ IsPrefix(Tail(RowsOf(logfile)), open_access_df)
            /\ Increasing(RowsOf(outfile))
            /\ \A j \in 1..Len(outfile) : outfile[j].row \in Processed)

C6_Witness ==
    /\ pc = "done"
    /\ Len(logfile) = 3
    /\ Len(outfile) = 2
    /\ logfile[2].row < logfile[3].row
    /\ outfile[1].row < outfile[2].row

\* C7: fetch_article_text writes xml_content/<PMCID>.xml if and only if the
\* content service answered with status 200: the file system changes only by
\* that write, the file is there before parsing starts and stays whatever the
\* outcome of the row; on another status the result is None.
Fetched == pc \in {"if_text", "count", "gate", "log"} \/ (pc = "sleep" /\ Truthy(pmcid))
C7_PayloadSavedIffSuccess ==
    /\ [][/\ xml_files' # xml_files =>
                /\ response.kind = "response"
                /\ response.status_code = 200
                /\ xml_files' = [xml_files EXCEPT ![pmcid] = File(response.content)]
          /\ \A p \in PMCIDs : xml_files[p].exists => xml_files'[p].exists]_vars
    /\ [](/\ pc = "fetch_parse" => xml_files[pmcid] = File(response.content)
          /\ (Fetched /\ response.status_code = 200) =>
                xml_files[pmcid] = File(response.content)
          /\ (pc = "if_text" /\ response.status_code # 200) => article_text = None)

C7_Witness ==
    /\ pc = "sleep"
    /\ Truthy(pmcid)
    /\ response.status_code = 200
    /\ ~response.content.well_formed
    /\ xml_files[pmcid] = File(response.content)
    /\ HasStatus(cur, "Error-NoText-or-XMLParseError")

\* C9: within a row the content service is requested only after the lookup
\* service returned a resolved identifier for that row; a row whose
\* resolution fails is logged as <PMID>,None,0,Error-NoPMCID with no content
\* request and no payload written; a row whose fetch yields no text is
\* logged with count 0 and status Error-NoText-or-XMLParseError.
C9_StageOrder ==
    /\ [](\A j \in 1..Len(requests) :
            requests[j].kind = "content" =>
                /\ requests[j].id \in PMCIDs
                /\ j > 1
                /\ requests[j - 1] =
                       [row |-> requests[j].row, kind |-> "lookup",
                        id |-> ToString(df[requests[j].row].pubmed_id)])
    /\ [](\A j \in 2..Len(logfile) :
            /\ (Truncated /\ StatusAt(j) = "Error-NoPMCID") =>
                  /\ logfile[j].line =
                        <<ToString(df[logfile[j].row].pubmed_id), "None", "0",
                          "Error-NoPMCID">>
                  /\ \A i \in RequestsOf(logfile[j].row) : requests[i].kind = "lookup"
            /\ (Truncated /\ StatusAt(j) = "Error-NoText-or-XMLParseError") =>
                  /\ logfile[j].line[3] = "0"
                  /\ logfile[j].line[2] \in PMCIDs
                  /\ \E i \in RequestsOf(logfile[j].row) : requests[i].kind = "content")
    /\ [](pc \in {"count", "gate", "log"} =>
            /\ Truthy(pmcid) /\ Truthy(article_text)
            /\ requests[Len(requests)] = [row |-> cur, kind |-> "content", id |-> pmcid]
            /\ AuditRowsOf(cur) = {})
    /\ [](pc = "sleep" =>
            /\ ~Truthy(pmcid) => HasStatus(cur, "Error-NoPMCID")
            /\ (Truthy(pmcid) /\ ~Truthy(article_text)) =>
                  HasStatus(cur, "Error-NoText-or-XMLParseError"))
    /\ [][xml_files' # xml_files =>
            /\ requests # <<>>
            /\ requests[Len(requests)] = [row |-> cur, kind |-> "content", id |-> pmcid]]_vars

C9_Witness ==
    /\ pc = "done"
    /\ Len(logfile) = 3
    /\ logfile[2].line = <<"99999", "None", "0", "Error-NoPMCID">>
    /\ logfile[3].line[4] = "Error-NoText-or-XMLParseError"
    /\ Len(requests) = 3


(***************************************************************************)
(* Properties of csv_to_jsonschema.py                                      *)
(***************************************************************************)

Keys == DOMAIN schema.properties
AttributesIn(table) == {table[j].Attribute : j \in 1..Len(table)}
NoSpaces(a) == SelectSeq(a, LAMBDA c : c # " ")

\* C8 as stated: the allow-list has four attribute names, so the schema
\* returned by csv_to_json_schema never has more than four properties.
C8_AtMostFourProperties ==
    spc = "returned" => Cardinality(Keys) <= 4

\* C8 as amended: the properties of the schema returned by csv_to_json_schema
\* are exactly the allow-listed attributes present in the input, the
\* allow-list having the five names Pubmed Id, Publication Assay, Publication
\* Tumor Type, Publication Tissue, Publication Dataset Alias, and no other
\* property; each property is keyed by the attribute name with spaces removed.
FiveAllowListed ==
    {<<"Pubmed", " ", "Id">>, <<"Publication", " ", "Assay">>,
     <<"Publication", " ", "Tumor", " ", "Type">>, <<"Publication", " ", "Tissue">>,
     <<"Publication", " ", "Dataset", " ", "Alias">>}
C8_ExactlyAllowListed ==
    spc = "returned" =>
        /\ Keys = {NoSpaces(a) : a \in FiveAllowListed \cap AttributesIn(csv)}
        /\ \A key \in Keys : \A j \in 1..Len(key) : key[j] # " "
        /\ \A key \in Keys : NoSpaces(schema.properties[key].title) = key

C8_Witness ==
    /\ spc = "returned"
    /\ Cardinality(Keys) = 5
    /\ <<"Pubmed", "Id">> \in Keys
    /\ schema.properties[<<"Pubmed", "Id">>].title = <<"Pubmed", " ", "Id">>

(***************************************************************************)
(* Properties of create_batch.py                                           *)
(***************************************************************************)

Written == {j \in JobIds : disk[j].exists}

\* C10: the steps run in the order upload, create (referencing the uploaded
\* file's id), retrieve, persist; the descriptor file <job id>.json is written
\* only after the three remote calls succeeded, its content is the job
\* descriptor that was retrieved, and a remote error leaves no descriptor file.
C10_PersistsRetrievedDescriptor ==
    /\ \A j \in 1..Len(calls) :
          calls[j].call = <<"files.create", "batches.create", "batches.retrieve">>[j]
    /\ Len(calls) >= 2 => calls[2].arg = batch_input_file.id
    /\ Len(calls) >= 3 => calls[3].arg = created_batch.id
    /\ bpc = "raised" => Written = {}
    /\ \A j \in Written :
          /\ bpc = "done"
          /\ Len(calls) = 3
          /\ j = batch.id
          /\ disk[j].content = batch

====
